---- MODULE Spec2Model ----
(***************************************************************************)
(* A model of the two scripts of the repository:                           *)
(*   tty-clock-ftctest.py  the Error Analyzer (usread, main loop, summary) *)
(*   tvalentine_gen.py     the Bitmap Generator                            *)
(* A Python str is a sequence of one-character strings; the built-ins the  *)
(* scripts use (split, slicing, int, float, str) are operators on them.    *)
(***************************************************************************)
EXTENDS Integers, Sequences, FiniteSets, TLC

VARIABLES
    stdin,      \* the lines of standard input (fixed for one run)
    pos,        \* number of lines input() has returned so far
    out,        \* the lines printed on standard output
    worst_err,  \* worst error (absolute value)
    sum_err2,   \* sum of squares of error
    num_err,    \* number of lines' errors included in sum_err2
    pc,         \* "loop" | "done" | "crashed" ("idle": the script is not run)
    exc,        \* the uncaught exception, "none" while there is none
    us_arg,     \* usread called alone: its argument
    us_ret,     \* usread called alone: its result, exc "pending" before the call
    gx, gy,     \* Bitmap Generator: the loop variables x and y
    gline,      \* Bitmap Generator: the list "line" of the current row
    gout,       \* Bitmap Generator: the rows printed
    gpc         \* Bitmap Generator: "run" | "done" ("idle": not run)

avars == <<stdin, pos, out, worst_err, sum_err2, num_err, pc, exc>>
uvars == <<us_arg, us_ret>>
gvars == <<gx, gy, gline, gout, gpc>>
vars == <<stdin, pos, out, worst_err, sum_err2, num_err, pc, exc,
          us_arg, us_ret, gx, gy, gline, gout, gpc>>

----------------------------------------------------------------------------
(* Python built-ins on strings, restricted to the characters the inputs    *)
(* below use: digits, ".", ",", "-", "#", " " and letters other than       *)
(* exponent, infinity or NaN spellings inside a numeric field.             *)

Digits == <<"0", "1", "2", "3", "4", "5", "6", "7", "8", "9">>

IsDigit(c) == \E i \in 1..10 : Digits[i] = c

DigitVal(c) == (CHOOSE i \in 1..10 : Digits[i] = c) - 1

AllDigits(s) == \A i \in 1..Len(s) : IsDigit(s[i])

RECURSIVE DigitsVal(_)
DigitsVal(s) ==
    IF s = <<>> THEN 0
    ELSE 10 * DigitsVal(SubSeq(s, 1, Len(s) - 1)) + DigitVal(s[Len(s)])

RECURSIVE Pow10(_)
Pow10(k) == IF k = 0 THEN 1 ELSE 10 * Pow10(k - 1)

Abs(n) == IF n < 0 THEN -n ELSE n

RECURSIVE GCD(_, _)
GCD(a, b) == IF b = 0 THEN a ELSE GCD(b, a % b)

\* s[:n]
Slice(s, n) == SubSeq(s, 1, IF n < Len(s) THEN n ELSE Len(s))

\* s.split(sep) for a one-character separator: always at least one part
RECURSIVE split(_, _)
split(s, sep) ==
    IF \A i \in 1..Len(s) : s[i] # sep THEN <<s>>
    ELSE LET k == CHOOSE i \in 1..Len(s) :
                      s[i] = sep /\ \A j \in 1..(i - 1) : s[j] # sep
         IN  <<SubSeq(s, 1, k - 1)>> \o split(SubSeq(s, k + 1, Len(s)), sep)

\* int(s) and int(s, base=10): an optional sign and at least one digit
int_lenient(s) ==
    LET signed == s # <<>> /\ s[1] \in {"-", "+"}
        body == IF signed THEN Tail(s) ELSE s
    IN  [exc |-> "none",
         v |-> IF body # <<>> /\ AllDigits(body) THEN DigitsVal(body) ELSE 0]

int(s) ==
    LET signed == s # <<>> /\ s[1] \in {"-", "+"}
        body == IF signed THEN Tail(s) ELSE s
    IN  IF body # <<>> /\ AllDigits(body)
        THEN [exc |-> "none",
              v |-> IF signed /\ s[1] = "-" THEN -DigitsVal(body)
                    ELSE DigitsVal(body)]
        ELSE [exc |-> "ValueError", v |-> 0]

\* str(n) for an integer n
RECURSIVE NatStr(_)
NatStr(n) ==
    IF n < 10 THEN <<Digits[n + 1]>>
    ELSE NatStr(n \div 10) \o <<Digits[(n % 10) + 1]>>

str(n) == IF n < 0 THEN <<"-">> \o NatStr(-n) ELSE NatStr(n)

\* float(s) for plain decimal text [sign] digits [. digits] with at least
\* one digit: the value is num / den, den a power of ten.
float(s) ==
    LET signed == s # <<>> /\ s[1] \in {"-", "+"}
        body == IF signed THEN Tail(s) ELSE s
        parts == split(body, ".")
        ip == parts[1]
        fp == IF Len(parts) > 1 THEN parts[2] ELSE <<>>
    IN  IF /\ Len(parts) <= 2
           /\ AllDigits(ip) /\ AllDigits(fp)
           /\ Len(ip) + Len(fp) > 0
        THEN [exc |-> "none",
              num |-> (IF signed /\ s[1] = "-" THEN -1 ELSE 1)
                          * DigitsVal(ip \o fp),
              den |-> Pow10(Len(fp))]
        ELSE [exc |-> "ValueError", num |-> 0, den |-> 1]

\* float.as_integer_ratio(f): the fraction in lowest terms.  This is the
\* binary double's exact ratio when the decimal text is a dyadic rational
\* (0.5, 1.5, 2.0, ...), which is what the inputs below are.
as_integer_ratio(f) ==
    LET g == GCD(Abs(f.num), f.den)
    IN  <<f.num \div g, f.den \div g>>

\* int(round(f * 1e+6)): round to nearest, ties to even.  Exact for
\* decimal text of at most six fraction digits.
round_us(f) ==
    LET a == f.num * 1000000
        q == a \div f.den
        r == a % f.den
    IN  IF 2 * r < f.den THEN q
        ELSE IF 2 * r > f.den THEN q + 1
        ELSE IF q % 2 = 0 THEN q ELSE q + 1

----------------------------------------------------------------------------
(* tty-clock-ftctest.py                                                    *)

\* Fixed point read of times: from fractional seconds to integer
\* microseconds.  The result is [exc, v]: v is the value returned when exc
\* is "none", else exc is the exception raised.
usread_nopad(s) ==
    LET parts == split(s, ".")
    IN  IF Len(parts) < 1 THEN [exc |-> "none", v |-> 0]
        ELSE LET t == int(parts[1])
             IN  IF t.exc # "none" THEN t
                 ELSE IF Len(parts) < 2 THEN [exc |-> "IndexError", v |-> 0]
                 ELSE LET m == int(Slice(parts[2], 6))
                      IN  IF m.exc # "none" THEN m
                          ELSE [exc |-> "none", v |-> t.v * 1000000 + m.v]

usread(s) ==
    LET parts == split(s, ".")
    IN  IF Len(parts) < 1 THEN [exc |-> "none", v |-> 0]
        ELSE LET t == int(parts[1])
             IN  IF t.exc # "none" THEN t
                 ELSE IF Len(parts) < 2 THEN [exc |-> "IndexError", v |-> 0]
                 ELSE LET m == int(Slice(parts[2] \o <<"0", "0", "0", "0", "0">>, 6))
                      IN  IF m.exc # "none" THEN m
                          ELSE [exc |-> "none", v |-> t.v * 1000000 + m.v]

\* The accumulated state and the parse of one line's columns.
TAG == <<"f", "t", "c", "t", "e", "s", "t", ",">>

\* Is it one of the "ftctest,..." lines?
IsTagged_tail(line) == SubSeq(line, 2, IF 8 < Len(line) THEN 8 ELSE Len(line)) = Tail(TAG)

IsTagged(line) == Slice(line, 8) = TAG

\* Name and parse the six columns, in the order the script does; exc is the
\* first exception raised, "none" when every column parses.
ParseCols(cols) ==
    LET o == usread(cols[2])
        sc == float(cols[3])
        of == float(cols[4])
        i == usread(cols[5])
        u == usread(cols[6])
        ratio == as_integer_ratio(sc)
        first == IF o.exc # "none" THEN o.exc
                 ELSE IF sc.exc # "none" THEN sc.exc
                 ELSE IF of.exc # "none" THEN of.exc
                 ELSE IF i.exc # "none" THEN i.exc
                 ELSE u.exc
    IN  [exc |-> first,
         us_orig |-> o.v,
         n_scale |-> ratio[1],
         d_scale |-> ratio[2],
         us_offset |-> round_us(of),
         us_input |-> i.v,
         us_output |-> u.v]

\* d_scale >> 1
Shr1(d) == d \div 2

\* Calculate the correct value.
us_calc_norounding(us_input, us_orig, n_scale, d_scale, us_offset) ==
    (((us_input - us_orig) * n_scale) \div d_scale) + us_offset + us_orig

us_calc(us_input, us_orig, n_scale, d_scale, us_offset) ==
    (((us_input - us_orig) * n_scale + Shr1(d_scale)) \div d_scale)
        + us_offset + us_orig

\* Error computation
ErrOf(p) ==
    p.us_output - us_calc(p.us_input, p.us_orig, p.n_scale, p.d_scale, p.us_offset)

\* if worst_err < erra: worst_err = erra
NewWorst_signed(worst, err) == IF worst < err THEN err ELSE worst

NewWorst(worst, err) == IF worst < Abs(err) THEN Abs(err) ELSE worst

\* A printed line: its text, and for the RMS line the operands of
\* sqrt(sum_err2 / num_err), whose float text is put after the text's
\* second character.
Printed(text) == [text |-> text, rms |-> <<>>]

\* Enhanced line
Enhanced(line, err) == Printed(line \o <<",">> \o str(err))

SamplesLine(n) ==
    Printed(<<"#", " ">> \o str(n)
            \o <<" ", "s", "a", "m", "p", "l", "e", "s", ".">>)

WorstLine(w) ==
    Printed(<<"#", " ">> \o str(w)
            \o <<" ", "u", "s", "e", "c", " ", "w", "o", "r", "s", "t", " ",
                 "e", "r", "r", "o", "r", ".">>)

RmsLine(s2, n) ==
    [text |-> <<"#", " ", " ", "u", "s", "e", "c", " ", "R", "M", "S", " ",
                "e", "r", "r", "o", "r", ".">>,
     rms |-> <<s2, n>>]

\* The line input() returns next
CurLine == stdin[pos + 1]

AtLine == pc = "loop" /\ pos < Len(stdin)

\* line[:8] != "ftctest,": continue
SkipUntagged ==
    /\ AtLine
    /\ ~IsTagged(CurLine)
    /\ pos' = pos + 1
    /\ UNCHANGED <<stdin, out, worst_err, sum_err2, num_err, pc, exc>>

\* len(cols) < 6: continue
SkipShort ==
    /\ AtLine
    /\ IsTagged(CurLine)
    /\ Len(split(CurLine, ",")) < 6
    /\ pos' = pos + 1
    /\ UNCHANGED <<stdin, out, worst_err, sum_err2, num_err, pc, exc>>

\* the six-name unpacking of more than six columns raises ValueError
UnpackError ==
    /\ AtLine
    /\ IsTagged(CurLine)
    /\ Len(split(CurLine, ",")) > 6
    /\ pos' = pos + 1
    /\ pc' = "crashed"
    /\ exc' = "ValueError"
    /\ UNCHANGED <<stdin, out, worst_err, sum_err2, num_err>>

\* usread or float raises on one of the columns
ParseError ==
    /\ AtLine
    /\ IsTagged(CurLine)
    /\ Len(split(CurLine, ",")) = 6
    /\ LET p == ParseCols(split(CurLine, ","))
       IN  /\ p.exc # "none"
           /\ exc' = p.exc
    /\ pos' = pos + 1
    /\ pc' = "crashed"
    /\ UNCHANGED <<stdin, out, worst_err, sum_err2, num_err>>

\* a record: compute the error, accumulate it, print the enhanced line
Record ==
    /\ AtLine
    /\ IsTagged(CurLine)
    /\ Len(split(CurLine, ",")) = 6
    /\ LET p == ParseCols(split(CurLine, ","))
           err == ErrOf(p)
           err2 == err * err
       IN  /\ p.exc = "none"
           /\ worst_err' = NewWorst(worst_err, err)
           /\ sum_err2' = sum_err2 + err2
           /\ num_err' = num_err + 1
           /\ out' = Append(out, Enhanced(CurLine, err))
    /\ pos' = pos + 1
    /\ UNCHANGED <<stdin, pc, exc>>

\* EOFError: break; then the summary of error.  sum_err2 / num_err raises
\* ZeroDivisionError when num_err is 0, after the first two prints.
Summary_rmsfirst ==
    /\ pc = "loop"
    /\ pos = Len(stdin)
    /\ IF num_err = 0
       THEN /\ out' = out
            /\ pc' = "crashed"
            /\ exc' = "ZeroDivisionError"
       ELSE /\ out' = out \o <<SamplesLine(num_err), WorstLine(worst_err),
                               RmsLine(sum_err2, num_err)>>
            /\ pc' = "done"
            /\ exc' = exc
    /\ UNCHANGED <<stdin, pos, worst_err, sum_err2, num_err>>

Summary ==
    /\ pc = "loop"
    /\ pos = Len(stdin)
    /\ IF num_err = 0
       THEN /\ out' = out \o <<SamplesLine(num_err), WorstLine(worst_err)>>
            /\ pc' = "crashed"
            /\ exc' = "ZeroDivisionError"
       ELSE /\ out' = out \o <<SamplesLine(num_err), WorstLine(worst_err),
                               RmsLine(sum_err2, num_err)>>
            /\ pc' = "done"
            /\ exc' = exc
    /\ UNCHANGED <<stdin, pos, worst_err, sum_err2, num_err>>

----------------------------------------------------------------------------
(* The input streams of the model.                                         *)

MaxLines == 2

RECURSIVE Join(_)
Join(fields) ==
    IF Len(fields) = 1 THEN fields[1]
    ELSE fields[1] \o <<",">> \o Join(Tail(fields))

ftctest == <<"f", "t", "c", "t", "e", "s", "t">>

\* text 0.<five digits' worth of zeros><d>, and other numerals
Usec(d) == <<"0", ".", "0", "0", "0", "0", "0", d>>
OneSec == <<"1", ".", "0", "0", "0", "0", "0", "0">>
Dec(a, b) == <<a, ".", b>>

\* well-formed records
WellFormedLines ==
    { Join(<<ftctest, Usec("0"), Dec("1", "0"), Usec("0"), OneSec, OneSec>>),
      Join(<<ftctest, Usec("0"), Dec("0", "5"), Usec("0"), Usec("3"), Usec("4")>>),
      Join(<<ftctest, Usec("3"), Dec("0", "5"), Usec("1"), Usec("0"), Usec("1")>>),
      Join(<<ftctest, Usec("3"), Dec("1", "5"), <<"-">> \o Usec("2"), Usec("0"),
             Usec("2") \o <<"9">>>>),
      Join(<<ftctest, Dec("0", "5"), Dec("2", "0"), Usec("0"),
             <<"0", ".", "5", "0", "0", "0", "1">>, Dec("0", "5")>>) }

\* lines without the tag
UntaggedLines ==
    { <<>>,
      ftctest,
      <<"#", " ", "0", " ", "s">>,
      Join(<<<<"x", "t", "c", "t", "e", "s", "t">>, Usec("0"), Dec("1", "0"),
             Usec("0"), OneSec, OneSec>>) }

\* tagged lines with fewer or more than six columns
ShortLines ==
    { TAG,
      Join(<<ftctest, Usec("0"), Dec("1", "0"), Usec("0"), OneSec>>) }

LongLines ==
    { Join(<<ftctest, Usec("0"), Dec("1", "0"), Usec("0"), OneSec, OneSec,
             <<"9">>>>) }

\* tagged six-column lines with text that is not a number in one column
MalformedLines ==
    { Join(<<ftctest, Dec("x", "0"), Dec("1", "0"), Usec("0"), OneSec, OneSec>>),
      Join(<<ftctest, Usec("0"), Dec("1", "x"), Usec("0"), OneSec, OneSec>>),
      Join(<<ftctest, Usec("0"), Dec("1", "0"), <<"-">>, OneSec, OneSec>>),
      Join(<<ftctest, Usec("0"), Dec("1", "0"), Usec("0"), <<"5">>, OneSec>>),
      Join(<<ftctest, Usec("0"), Dec("1", "0"), Usec("0"), OneSec,
             <<"0", ".", "0", "0", "x">>>>),
      Join(<<ftctest, Usec("0"), Dec("1", "0"), Usec("0"), Usec("1"),
             Usec("3") \o <<"x">>>>) }

Lines ==
    WellFormedLines \cup UntaggedLines \cup ShortLines \cup LongLines
        \cup MalformedLines

RECURSIVE SeqsUpTo(_, _)
SeqsUpTo(S, n) ==
    IF n = 0 THEN {<<>>}
    ELSE LET shorter == SeqsUpTo(S, n - 1)
         IN  shorter \cup {Append(q, e) : q \in shorter, e \in S}

Streams == SeqsUpTo(Lines, MaxLines)

UsreadIdle == us_arg = <<>> /\ us_ret = [exc |-> "pending", v |-> 0]

GenIdle == gx = 0 /\ gy = 0 /\ gline = <<>> /\ gout = <<>> /\ gpc = "idle"

\* Accumulated state, for summary, before the first line is read
Init ==
    /\ stdin \in Streams
    /\ pos = 0
    /\ out = <<>>
    /\ worst_err = 0
    /\ sum_err2 = 0
    /\ num_err = 0
    /\ pc = "loop"
    /\ exc = "none"
    /\ UsreadIdle
    /\ GenIdle

Next ==
    \/ SkipUntagged /\ UNCHANGED <<uvars, gvars>>
    \/ SkipShort /\ UNCHANGED <<uvars, gvars>>
    \/ UnpackError /\ UNCHANGED <<uvars, gvars>>
    \/ ParseError /\ UNCHANGED <<uvars, gvars>>
    \/ Record /\ UNCHANGED <<uvars, gvars>>
    \/ Summary /\ UNCHANGED <<uvars, gvars>>

Spec == Init /\ [][Next]_vars

----------------------------------------------------------------------------
(* usread called alone, on one argument.                                   *)

MaxFrac == 7

IntTexts == { <<"0">>, <<"5">>, <<"1", "2">> }

FracDigits == {"0", "1", "9"}

FracTexts == SeqsUpTo(FracDigits, MaxFrac)

UsArgs ==
    { i \o <<".">> \o f : i \in IntTexts, f \in FracTexts }
        \cup IntTexts
        \cup { <<"5", ".", "2", "5">>, <<"5", ".", "1">>, <<>>, <<".", "5">>,
               <<"x", ".", "1">>, <<"5", ".", "1", "x">>,
               <<"5", ".", "2", "5", ".", "7">> }

AnalyzerIdle ==
    /\ stdin = <<>>
    /\ pos = 0
    /\ out = <<>>
    /\ worst_err = 0
    /\ sum_err2 = 0
    /\ num_err = 0
    /\ pc = "idle"
    /\ exc = "none"

InitUsread ==
    /\ us_arg \in UsArgs
    /\ us_ret = [exc |-> "pending", v |-> 0]
    /\ AnalyzerIdle
    /\ GenIdle

CallUsread ==
    /\ us_ret.exc = "pending"
    /\ us_ret' = usread(us_arg)
    /\ UNCHANGED <<us_arg, avars, gvars>>

NextUsread == CallUsread

SpecUsread == InitUsread /\ [][NextUsread]_vars

----------------------------------------------------------------------------
(* Reference readings of the text of a record, used to state the          *)
(* properties below.                                                       *)

StartsWithTag(l) ==
    /\ Len(l) >= 8
    /\ l[1] = "f" /\ l[2] = "t" /\ l[3] = "c" /\ l[4] = "t"
    /\ l[5] = "e" /\ l[6] = "s" /\ l[7] = "t" /\ l[8] = ","

NumCommas(l) == Cardinality({i \in 1..Len(l) : l[i] = ","})

\* the k-th comma-separated field of l
Field(l, k) ==
    LET commas == {i \in 1..Len(l) : l[i] = ","}
        before(i) == Cardinality({j \in commas : j < i})
        idx == {i \in 1..Len(l) : l[i] # "," /\ before(i) = k - 1}
    IN  [j \in 1..Cardinality(idx) |->
            l[CHOOSE i \in idx : Cardinality({h \in idx : h < i}) = j - 1]]

DotAt(t) == {i \in 1..Len(t) : t[i] = "."}

\* <integer>.<fraction>: digits, one ".", digits (the fraction may be empty)
IsTimeText(t) ==
    /\ Cardinality(DotAt(t)) = 1
    /\ \A i \in 1..Len(t) : t[i] = "." \/ IsDigit(t[i])
    /\ t[1] # "."

\* [-]digits.digits
IsRealText(t) ==
    LET u == IF t # <<>> /\ t[1] = "-" THEN Tail(t) ELSE t
    IN  /\ Cardinality(DotAt(u)) = 1
        /\ \A i \in 1..Len(u) : u[i] = "." \/ IsDigit(u[i])
        /\ u[1] # "." /\ u[Len(u)] # "."

\* the value of digit i after the "." of t, 0 when t has no such digit
FracDigit(t, i) ==
    LET d == CHOOSE k \in DotAt(t) : TRUE
    IN  IF d + i <= Len(t) THEN DigitVal(t[d + i]) ELSE 0

RECURSIVE Weighted(_, _, _)
\* sum over k in lo..hi of f[k]
Weighted(f, lo, hi) == IF lo > hi THEN 0 ELSE f[lo] + Weighted(f, lo + 1, hi)

\* seconds of a time text
WholePart(t) ==
    LET d == CHOOSE k \in DotAt(t) : TRUE
    IN  Weighted([k \in 1..(d - 1) |-> DigitVal(t[k]) * Pow10(d - 1 - k)], 1, d - 1)

\* microseconds of a time text: the first six fraction digits, no rounding
RefMicros(t) ==
    WholePart(t) * 1000000
        + Weighted([k \in 1..6 |-> FracDigit(t, k) * Pow10(6 - k)], 1, 6)

\* microseconds of an offset text of at most six fraction digits
RefOffset(t) ==
    IF t[1] = "-" THEN -RefMicros(Tail(t)) ELSE RefMicros(t)

\* the scale text as a fraction in lowest terms <<n, d>>, d in 1..16
RefRatio(t) ==
    LET u == IF t[1] = "-" THEN Tail(t) ELSE t
        sgn == IF t[1] = "-" THEN -1 ELSE 1
        m == RefMicros(u)
        d == CHOOSE e \in 1..16 :
                 /\ (m * e) % 1000000 = 0
                 /\ \A e2 \in 1..(e - 1) : (m * e2) % 1000000 # 0
    IN  <<sgn * ((m * d) \div 1000000), d>>

\* a decimal integer text and its value
IsIntText(t) ==
    LET u == IF t # <<>> /\ t[1] = "-" THEN Tail(t) ELSE t
    IN  u # <<>> /\ \A i \in 1..Len(u) : IsDigit(u[i])

IntTextVal(t) ==
    LET u == IF t[1] = "-" THEN Tail(t) ELSE t
        v == Weighted([k \in 1..Len(u) |-> DigitVal(u[k]) * Pow10(Len(u) - k)],
                      1, Len(u))
    IN  IF t[1] = "-" THEN -v ELSE v

\* a record as the interface describes it
WellFormedRecord(l) ==
    /\ StartsWithTag(l)
    /\ NumCommas(l) = 5
    /\ IsTimeText(Field(l, 2))
    /\ IsRealText(Field(l, 3))
    /\ IsRealText(Field(l, 4))
    /\ IsTimeText(Field(l, 5))
    /\ IsTimeText(Field(l, 6))

IsSummaryLine(o) == o.text # <<>> /\ o.text[1] = "#"

\* the record lines printed so far, and the error each one ends with
RecordsOut == SelectSeq(out, LAMBDA o : ~IsSummaryLine(o))

ErrText(o) == Field(o.text, NumCommas(o.text) + 1)

ErrOut(o) == IntTextVal(ErrText(o))

----------------------------------------------------------------------------
(* Properties of the Error Analyzer                                        *)

CurIs(P(_)) == pc = "loop" /\ pos < Len(stdin) /\ P(stdin[pos + 1])

StatsUnchanged ==
    /\ num_err' = num_err
    /\ worst_err' = worst_err
    /\ sum_err2' = sum_err2

TaggedLines == SelectSeq(stdin, StartsWithTag)

\* C1: for every input stream whose matching lines are all well-formed, at
\* termination the output is one line per matching line (the line, ",",
\* the decimal error) in input order, then exactly 3 lines prefixed "#",
\* and nothing else.
C1_RecordsThenThreeSummaryLines ==
    (pc \in {"done", "crashed"}
        /\ \A k \in 1..Len(stdin) :
               StartsWithTag(stdin[k]) => WellFormedRecord(stdin[k]))
    => /\ Len(out) = Len(TaggedLines) + 3
       /\ \A i \in 1..Len(TaggedLines) :
              /\ Slice(out[i].text, Len(TaggedLines[i]) + 1)
                     = TaggedLines[i] \o <<",">>
              /\ IsIntText(ErrText(out[i]))
       /\ \A j \in 1..3 : IsSummaryLine(out[Len(TaggedLines) + j])

\* C2: every printed record ftctest,orig,scale,offset,input,output,err with
\* well-formed columns has err = output - (q + offset + orig), where q is
\* the elapsed time (input - orig) times n_scale/d_scale rounded half up:
\* d*q <= (input - orig)*n + d div 2 < d*(q + 1); the record
\* ftctest,0.000000,1.0,0.000000,1.000000,1.000000 has computed value
\* 1000000 and error 0.
ExampleRecord ==
    <<"f", "t", "c", "t", "e", "s", "t", ",",
      "0", ".", "0", "0", "0", "0", "0", "0", ",",
      "1", ".", "0", ",",
      "0", ".", "0", "0", "0", "0", "0", "0", ",",
      "1", ".", "0", "0", "0", "0", "0", "0", ",",
      "1", ".", "0", "0", "0", "0", "0", "0">>

RoundedHalfUp(l, err) ==
    LET orig == RefMicros(Field(l, 2))
        nd == RefRatio(Field(l, 3))
        offset == RefOffset(Field(l, 4))
        input == RefMicros(Field(l, 5))
        output == RefMicros(Field(l, 6))
        calc == output - err
        q == calc - offset - orig
        x == (input - orig) * nd[1] + (nd[2] \div 2)
    IN  /\ nd[2] * q <= x
        /\ x < nd[2] * (q + 1)
        /\ (l = ExampleRecord => calc = 1000000 /\ err = 0)

C2_ErrorIsOutputMinusRoundedCalc ==
    \A i \in 1..Len(RecordsOut) :
        LET l == RecordsOut[i].text
        IN  WellFormedRecord(Slice(l, Len(l) - Len(ErrText(RecordsOut[i])) - 1))
                => RoundedHalfUp(l, ErrOut(RecordsOut[i]))

\* a record of scale 1/2 and negative elapsed time has been printed, after
\* the example record
C2_Witness ==
    /\ Len(RecordsOut) = 2
    /\ Slice(RecordsOut[1].text, Len(ExampleRecord)) = ExampleRecord
    /\ ErrOut(RecordsOut[1]) = 0
    /\ RefRatio(Field(RecordsOut[2].text, 3)) = <<1, 2>>
    /\ RefMicros(Field(RecordsOut[2].text, 5))
           < RefMicros(Field(RecordsOut[2].text, 2))
    /\ ErrOut(RecordsOut[2]) = -2

\* C3: processing a line whose first 8 characters are not the tag prints
\* nothing and leaves num_err, worst_err and sum_err2 unchanged, and the
\* run goes on with the next line.
Untagged(l) == ~StartsWithTag(l)

C3_UntaggedLineIsDropped ==
    [][CurIs(Untagged)
          => out' = out /\ StatsUnchanged /\ pc' = "loop" /\ pos' = pos + 1]_vars

\* an untagged line has been dropped after a record was printed
C3_Witness ==
    /\ pc = "loop"
    /\ pos = 2
    /\ Untagged(stdin[2])
    /\ Len(stdin[2]) > 8
    /\ num_err = 1
    /\ Len(out) = 1

\* C4: a tagged line with any number of columns other than 6, fewer or
\* more, is skipped: nothing printed, summary state unchanged, no abort.
WrongColumnCount(l) == StartsWithTag(l) /\ NumCommas(l) # 5

C4_WrongColumnCountIsSkipped ==
    [][CurIs(WrongColumnCount)
          => out' = out /\ StatsUnchanged /\ pc' = "loop" /\ pos' = pos + 1]_vars

\* C5 as stated: a tagged 6-column line with non-numeric text in a numeric
\* column aborts the run at that line, printing nothing for it.
NonNumeric(t) ==
    \/ t = <<>>
    \/ \E i \in 1..Len(t) : ~IsDigit(t[i]) /\ t[i] \notin {".", "-", "+"}

SixColumns(l) == StartsWithTag(l) /\ NumCommas(l) = 5

HasNonNumericColumn(l) ==
    SixColumns(l) /\ \E k \in 2..6 : NonNumeric(Field(l, k))

C5_NonNumericColumnAborts ==
    [][CurIs(HasNonNumericColumn) => pc' = "crashed" /\ out' = out]_vars

\* C5 amended: a tagged 6-column line with a column the parse rejects (a
\* time column without ".", or whose integer part or first six characters
\* of the zero-padded fraction are not a decimal integer; a scale or offset
\* that is not decimal text) aborts the run at that line: nothing is
\* printed for it, no "#" line is ever printed, and no step follows.
TimeRejected(t) ==
    \/ DotAt(t) = {}
    \/ LET d1 == CHOOSE i \in DotAt(t) : \A j \in DotAt(t) : i <= j
           rest == SubSeq(t, d1 + 1, Len(t))
           d2 == IF DotAt(rest) = {} THEN Len(rest) + 1
                 ELSE CHOOSE i \in DotAt(rest) : \A j \in DotAt(rest) : i <= j
           frac == SubSeq(rest, 1, d2 - 1)
           six == [k \in 1..(IF Len(frac) + 5 < 6 THEN Len(frac) + 5 ELSE 6) |->
                      IF k <= Len(frac) THEN frac[k] ELSE "0"]
       IN  ~IsIntText(SubSeq(t, 1, d1 - 1)) \/ ~IsIntText(six)

RealRejected(t) ==
    LET u == IF t # <<>> /\ t[1] = "-" THEN Tail(t) ELSE t
    IN  \/ Cardinality(DotAt(u)) > 1
        \/ \A i \in 1..Len(u) : ~IsDigit(u[i])
        \/ \E i \in 1..Len(u) : ~IsDigit(u[i]) /\ u[i] # "."

HasRejectedColumn(l) ==
    /\ SixColumns(l)
    /\ \/ TimeRejected(Field(l, 2)) \/ RealRejected(Field(l, 3))
       \/ RealRejected(Field(l, 4))
       \/ TimeRejected(Field(l, 5)) \/ TimeRejected(Field(l, 6))

C5_RejectedColumnAborts ==
    [][/\ pc = "loop"
       /\ CurIs(HasRejectedColumn)
             => /\ pc' = "crashed"
                /\ exc' \in {"ValueError", "IndexError"}
                /\ out' = out
                /\ pos' = pos + 1
                /\ \A i \in 1..Len(out') : ~IsSummaryLine(out'[i])]_vars

\* the run was aborted at its first line, a column of which has no ".",
\* with a well-formed record still unread and nothing printed
C5_Witness ==
    /\ pc = "crashed"
    /\ exc = "IndexError"
    /\ pos = 1
    /\ Len(stdin) = 2
    /\ HasRejectedColumn(stdin[1])
    /\ WellFormedRecord(stdin[2])
    /\ out = <<>>

\* C8: with no record in the input (an empty stream, or only untagged or
\* too-short lines) the first two summary lines read "# 0 samples." and
\* "# 0 usec worst error.".
NoRecordLine ==
    \A k \in 1..Len(stdin) : ~StartsWithTag(stdin[k]) \/ NumCommas(stdin[k]) < 5

C8_ZeroSamplesSummary ==
    (pc \in {"done", "crashed"} /\ NoRecordLine)
    => /\ Len(out) >= 2
       /\ out[1].text = <<"#", " ", "0", " ", "s", "a", "m", "p", "l", "e", "s", ".">>
       /\ out[2].text = <<"#", " ", "0", " ", "u", "s", "e", "c", " ",
                          "w", "o", "r", "s", "t", " ", "e", "r", "r", "o", "r", ".">>

\* the summary was printed for a stream of an untagged and a too-short line
C8_Witness ==
    /\ pc = "crashed"
    /\ exc = "ZeroDivisionError"
    /\ Len(stdin) = 2
    /\ ~StartsWithTag(stdin[1])
    /\ StartsWithTag(stdin[2])
    /\ Len(out) = 2

\* C10: in every state num_err is the number of record lines printed,
\* worst_err the maximum of |error| over them (0 if none) and sum_err2 the
\* sum of error^2 over them; so worst_err >= 0 and
\* worst_err^2 <= sum_err2 <= num_err * worst_err^2; num_err never
\* decreases.
RECURSIVE SumSq(_)
SumSq(es) == IF es = <<>> THEN 0 ELSE Head(es) * Head(es) + SumSq(Tail(es))

ErrsOut == [i \in 1..Len(RecordsOut) |-> ErrOut(RecordsOut[i])]

SummaryStateOK ==
    /\ num_err = Len(RecordsOut)
    /\ \A i \in 1..Len(ErrsOut) : ErrsOut[i] <= worst_err /\ -ErrsOut[i] <= worst_err
    /\ \/ ErrsOut = <<>> /\ worst_err = 0
       \/ \E i \in 1..Len(ErrsOut) : worst_err \in {ErrsOut[i], -ErrsOut[i]}
    /\ sum_err2 = SumSq(ErrsOut)
    /\ worst_err >= 0
    /\ worst_err * worst_err <= sum_err2
    /\ sum_err2 <= num_err * worst_err * worst_err

C10_RunningSummaryState ==
    []SummaryStateOK /\ [][num_err' >= num_err]_vars

\* two records printed, the worst error from the first (a negative error)
C10_Witness ==
    /\ num_err = 2
    /\ ErrsOut = <<-20, 2>>
    /\ worst_err = 20
    /\ sum_err2 = 404

----------------------------------------------------------------------------
(* Properties of usread                                                    *)

Called == us_ret.exc # "pending"

\* C6: for <integer>.<fraction> with a non-negative integer part s and a
\* fraction of any length (empty included), usread returns s*1000000 + m, m
\* the fraction right-padded with zeros and truncated to 6 digits;
\* usread("5.25") = 5250000, usread("5.1") = 5100000, and a seventh or
\* later fraction digit never changes the result.
C6_UsreadPadsThenTruncates ==
    (Called /\ IsTimeText(us_arg))
    => /\ us_ret = [exc |-> "none", v |-> RefMicros(us_arg)]
       /\ (us_arg = <<"5", ".", "2", "5">> => us_ret.v = 5250000)
       /\ (us_arg = <<"5", ".", "1">> => us_ret.v = 5100000)
       /\ (Len(us_arg) > 8 /\ us_arg[1] = "5" /\ us_arg[2] = ".")
              => us_ret.v = 5000000 + RefMicros(<<"0">> \o SubSeq(us_arg, 2, 8))

\* usread returned for a fraction of seven digits whose seventh would round
\* the sixth up
C6_Witness ==
    /\ Called
    /\ us_arg = <<"5", ".", "1", "0", "0", "0", "0", "0", "9">>
    /\ us_ret.v = 5100000

\* C7: given a string without "." usread returns 0 rather than failing;
\* stated for the bare integers, such as "5".
C7_NoSeparatorReturnsZero ==
    (Called /\ us_arg # <<>> /\ \A i \in 1..Len(us_arg) : IsDigit(us_arg[i]))
        => us_ret = [exc |-> "none", v |-> 0]

----------------------------------------------------------------------------
(* tvalentine_gen.py                                                       *)

\* X, Y dimensions in cells
dim == <<48, 24>>

\* circle centers and radii; a center coordinate is given in tenths
\* (11.5 is 115), a radius in whole cells
Tenths == 10

circs == << << <<115, 75>>, <<12, 6>> >>,
            << <<355, 75>>, <<12, 6>> >> >>

\* Pointy bit below them: vectors, and the values the dot product must not
\* exceed, in millionths: -11.75, 50.5 + 0.707107*24, 3.5 + 0.707107*24
Millionths == 1000000

poly == << << <<0, -1>>, -11750000 >>,
           << <<1, 2>>, 50500000 + 707107 * 24 >>,
           << <<-1, 2>>, 3500000 + 707107 * 24 >> >>

\* characters to use: empty and filled
chars == <<" ", "!">>

\* (xro ** 2 + yro ** 2) <= 1 with xro = (x - ctr[0]) / rads[0] and
\* yro = (y - ctr[1]) / rads[1], both sides multiplied by
\* (Tenths * rads[0] * rads[1]) ** 2
InCirc(x, y, c) ==
    LET ctr == c[1]
        rads == c[2]
        xn == (Tenths * x - ctr[1]) * rads[2]
        yn == (Tenths * y - ctr[2]) * rads[1]
        one == Tenths * rads[1] * rads[2]
    IN  xn * xn + yn * yn <= one * one

\* for ctr, rads in circs: ... fill = True; break
RECURSIVE CircLoop(_, _, _)
CircLoop(x, y, i) ==
    IF i > Len(circs) THEN FALSE
    ELSE IF InCirc(x, y, circs[i]) THEN TRUE
    ELSE CircLoop(x, y, i + 1)

\* for vec, thr in poly: dp = ...; if dp > thr: inpoly = False; break
RECURSIVE PolyLoop(_, _, _)
PolyLoop(x, y, i) ==
    IF i > Len(poly) THEN TRUE
    ELSE LET vec == poly[i][1]
             thr == poly[i][2]
             dp == vec[1] * x + vec[2] * y
         IN  IF dp * Millionths > thr THEN FALSE
             ELSE PolyLoop(x, y, i + 1)

\* the value of fill when the cell is generated
fill_overwritten(x, y) == PolyLoop(x, y, 1)

fill(x, y) ==
    LET incirc == CircLoop(x, y, 1)
    IN  IF ~incirc THEN PolyLoop(x, y, 1) ELSE incirc

\* "    { \"" + "".join(line) + "\" },"
RowText(line) ==
    <<" ", " ", " ", " ", "{", " ", "\"">> \o line \o <<"\"", " ", "}", ",">>

InitGen ==
    /\ gx = 0
    /\ gy = 0
    /\ gline = <<>>
    /\ gout = <<>>
    /\ gpc = "run"
    /\ AnalyzerIdle
    /\ UsreadIdle

InRow == gpc = "run" /\ gy < dim[2] /\ gx < dim[1]

\* one pass of the loop over x: line.append(chars[1])
CellFilled ==
    /\ InRow
    /\ fill(gx, gy)
    /\ gline' = Append(gline, chars[2])
    /\ gx' = gx + 1
    /\ UNCHANGED <<gy, gout, gpc>>

\* one pass of the loop over x: line.append(chars[0])
CellEmpty ==
    /\ InRow
    /\ ~fill(gx, gy)
    /\ gline' = Append(gline, chars[1])
    /\ gx' = gx + 1
    /\ UNCHANGED <<gy, gout, gpc>>

\* the loop over x is over: print the row and go to the next y
PrintRow ==
    /\ gpc = "run"
    /\ gy < dim[2]
    /\ gx = dim[1]
    /\ gout' = Append(gout, RowText(gline))
    /\ gline' = <<>>
    /\ gx' = 0
    /\ gy' = gy + 1
    /\ gpc' = IF gy + 1 = dim[2] THEN "done" ELSE "run"

NextGen ==
    \/ CellFilled /\ UNCHANGED <<avars, uvars>>
    \/ CellEmpty /\ UNCHANGED <<avars, uvars>>
    \/ PrintRow /\ UNCHANGED <<avars, uvars>>

SpecGen == InitGen /\ [][NextGen]_vars

----------------------------------------------------------------------------
(* Properties of the Bitmap Generator                                      *)

\* ((x - cx)/12)^2 + ((y - 7.5)/6)^2 <= 1 for cx = 11.5 and cx = 35.5, in
\* halves of a cell
InEllipses(x, y) ==
    \E cx2 \in {23, 71} :
        (2 * x - cx2) * (2 * x - cx2) + 4 * (2 * y - 15) * (2 * y - 15) <= 576

\* -y <= -11.75, x + 2y <= 67.470568, -x + 2y <= 20.470568 for integers
InPolygon(x, y) == y >= 12 /\ x + 2 * y <= 67 /\ 2 * y - x <= 20

\* the cell (x, y) of the rows printed
CellOut(x, y) == gout[y + 1][8 + x]

RowOK(y) ==
    /\ Len(gout[y + 1]) = 48 + 11
    /\ SubSeq(gout[y + 1], 1, 7) = <<" ", " ", " ", " ", "{", " ", "\"">>
    /\ SubSeq(gout[y + 1], 56, 59) = <<"\"", " ", "}", ",">>
    /\ \A x \in 0..47 :
           /\ CellOut(x, y) \in {" ", "!"}
           /\ CellOut(x, y) = "!" <=> (InEllipses(x, y) \/ InPolygon(x, y))

\* C9: the generator prints exactly 24 rows of exactly 48 cells of the two
\* symbols, the cell (x, y) filled iff (x, y) is inside an ellipse or
\* satisfies the three half-plane constraints; (11, 7) is filled and
\* (0, 0) is empty.
C9_BitmapIsUnionOfEllipsesAndPolygon ==
    /\ Len(gout) <= 24
    /\ \A y \in 0..(Len(gout) - 1) : RowOK(y)
    /\ Len(gline) <= 48
    /\ gpc = "done"
          => /\ Len(gout) = 24
             /\ CellOut(11, 7) = "!"
             /\ CellOut(0, 0) = " "

\* all rows printed, with a cell filled by the ellipses alone, one by the
\* polygon alone, one by both and one by neither
C9_Witness ==
    /\ gpc = "done"
    /\ Len(gout) = 24
    /\ CellOut(11, 7) = "!" /\ InEllipses(11, 7) /\ ~InPolygon(11, 7)
    /\ \E x \in 0..47, y \in 0..23 :
           CellOut(x, y) = "!" /\ InPolygon(x, y) /\ ~InEllipses(x, y)
    /\ \E x \in 0..47, y \in 0..23 :
           CellOut(x, y) = "!" /\ InPolygon(x, y) /\ InEllipses(x, y)
    /\ CellOut(0, 0) = " "

====
